---- MODULE Spec2Model ----
(***************************************************************************)
(* A model of src/src/event_manager.py: the console event manager.  The    *)
(* store is the in-memory list EventManager.events plus the JSON file it   *)
(* is loaded from and rewritten to.  Text (titles, tags, queries, date     *)
(* strings) is a sequence of one-character strings, so that substring      *)
(* search, split(',') and the date codec are computed character by         *)
(* character.  A datetime is the record of its calendar fields.            *)
(***************************************************************************)
EXTENDS Integers, Sequences, FiniteSets, TLC

VARIABLES
    events,     \* EventManager.events: the list of Event objects
    file,       \* events.json: [state |-> "absent" | "json" | "corrupt", data |-> records]
    pc,         \* where the process is: "menu", a blocked get_input, "exited", "crashed"
    title,      \* the local `title` of add_event and of edit_event
    new_title,  \* edit_event's local `new_title`
    date_time,  \* add_event's `date_time` / edit_event's `new_date_time`
    event,      \* edit_event's loop variable `event`, as its index in events (0: none)
    handler,    \* the method the last step ran ("": none)
    inp,        \* the text view.get_input returned in the last step
    lastMsg,    \* what the last step told the view ("none": nothing)
    shown,      \* the events the last step handed to the view
    now,        \* the system clock, in whole minutes since 0001-01-01 00:00
    readings,   \* the clock readings of the last step's show_upcoming_events, one per event
    raised,     \* what became of an exception in the last step: "none", "caught", "escaped"
    wfail,      \* whether the process's last save_events call failed
    padYear,    \* whether this build's strftime('%Y') zero-pads years below 1000
    loaded      \* the list the last stand-alone load_events call returned

vars == <<events, file, pc, title, new_title, date_time, event, handler, inp, lastMsg,
          shown, now, readings, raised, wfail, padYear, loaded>>

----------------------------------------------------------------------------
(* Bounds of the model *)

\* the longest list of events the store is allowed to grow to
MaxEvents == 2

\* the longest query string drawn for search_event
MaxLen == 2

\* how many minutes the clock may move on
MaxTicks == 1

----------------------------------------------------------------------------
(* Text *)

Digits == <<"0", "1", "2", "3", "4", "5", "6", "7", "8", "9">>

IsDigit(c) == c \in {"0", "1", "2", "3", "4", "5", "6", "7", "8", "9"}

DigitVal(c) == (CHOOSE n \in 1..10 : Digits[n] = c) - 1

\* the value of a run of decimal digits
RECURSIVE NumVal(_)
NumVal(s) ==
    IF s = <<>> THEN 0
    ELSE 10 * NumVal(SubSeq(s, 1, Len(s) - 1)) + DigitVal(s[Len(s)])

\* the decimal digits of n, without leading zeros ("0" for 0)
RECURSIVE NumStr(_)
NumStr(n) ==
    IF n < 10 THEN <<Digits[n + 1]>>
    ELSE NumStr(n \div 10) \o <<Digits[(n % 10) + 1]>>

\* n written in exactly w digits, zero-filled on the left
RECURSIVE ZeroPad(_, _)
ZeroPad(n, w) ==
    IF w = 0 THEN <<>>
    ELSE ZeroPad(n \div 10, w - 1) \o <<Digits[(n % 10) + 1]>>

\* Python's `q in s` on str: q occurs in s as a contiguous run
Contains(s, q) ==
    \E i \in 0..(Len(s) - Len(q)) : SubSeq(s, i + 1, i + Len(q)) = q

\* str.split(','): the pieces between commas; never the empty list
RECURSIVE Split(_)
Split(s) ==
    IF \A i \in 1..Len(s) : s[i] # ","
    THEN <<s>>
    ELSE LET i == CHOOSE k \in 1..Len(s) :
                      s[k] = "," /\ \A j \in 1..(k - 1) : s[j] # ","
         IN  <<SubSeq(s, 1, i - 1)>> \o Split(SubSeq(s, i + 1, Len(s)))

----------------------------------------------------------------------------
(* datetime: calendar arithmetic *)

IsLeap(y) == (y % 4 = 0) /\ ((y % 100 # 0) \/ (y % 400 = 0))

DaysInMonth(y, m) ==
    IF m = 2 THEN (IF IsLeap(y) THEN 29 ELSE 28)
    ELSE IF m \in {4, 6, 9, 11} THEN 30 ELSE 31

RECURSIVE DaysBeforeMonth(_, _)
DaysBeforeMonth(y, m) ==
    IF m = 1 THEN 0 ELSE DaysBeforeMonth(y, m - 1) + DaysInMonth(y, m - 1)

DaysBeforeYear(y) ==
    (y - 1) * 365 + ((y - 1) \div 4) - ((y - 1) \div 100) + ((y - 1) \div 400)

\* minutes from 0001-01-01 00:00 to dt
Minutes(dt) ==
    ((DaysBeforeYear(dt.year) + DaysBeforeMonth(dt.year, dt.month) + (dt.day - 1)) * 24
        + dt.hour) * 60 + dt.minute

DT(y, m, d, h, mi) == [year |-> y, month |-> m, day |-> d, hour |-> h, minute |-> mi]

\* a constructor that takes any day up to 31 in every month
ValidDateAnyDay(dt) ==
    /\ dt.year \in 1..9999
    /\ dt.month \in 1..12
    /\ dt.day \in 1..31
    /\ dt.hour \in 0..23
    /\ dt.minute \in 0..59

\* what the datetime constructor accepts
ValidDate(dt) ==
    /\ dt.year \in 1..9999
    /\ dt.month \in 1..12
    /\ dt.day \in 1..DaysInMonth(dt.year, dt.month)
    /\ dt.hour \in 0..23
    /\ dt.minute \in 0..59

----------------------------------------------------------------------------
(* The date codec: the fixed format '%Y-%m-%d %H:%M' *)

IsSpace(c) == c \in {" ", "\t"}

\* the regular expressions _strptime compiles the directives to
YearPat(s) == Len(s) = 4 /\ \A i \in 1..4 : IsDigit(s[i])

\* %m: 1[0-2]|0[1-9]|[1-9]
MonthPat(s) ==
    \/ Len(s) = 2 /\ s[1] = "1" /\ s[2] \in {"0", "1", "2"}
    \/ Len(s) = 2 /\ s[1] = "0" /\ IsDigit(s[2]) /\ s[2] # "0"
    \/ Len(s) = 1 /\ IsDigit(s[1]) /\ s[1] # "0"

\* %d: 3[0-1]|[1-2]\d|0[1-9]|[1-9]| [1-9]
DayPat(s) ==
    \/ Len(s) = 2 /\ s[1] = "3" /\ s[2] \in {"0", "1"}
    \/ Len(s) = 2 /\ s[1] \in {"1", "2"} /\ IsDigit(s[2])
    \/ Len(s) = 2 /\ s[1] \in {"0", " "} /\ IsDigit(s[2]) /\ s[2] # "0"
    \/ Len(s) = 1 /\ IsDigit(s[1]) /\ s[1] # "0"

\* %H: 2[0-3]|[0-1]\d|\d
HourPat(s) ==
    \/ Len(s) = 2 /\ s[1] = "2" /\ s[2] \in {"0", "1", "2", "3"}
    \/ Len(s) = 2 /\ s[1] \in {"0", "1"} /\ IsDigit(s[2])
    \/ Len(s) = 1 /\ IsDigit(s[1])

\* %M: [0-5]\d|\d
MinutePat(s) ==
    \/ Len(s) = 2 /\ s[1] \in {"0", "1", "2", "3", "4", "5"} /\ IsDigit(s[2])
    \/ Len(s) = 1 /\ IsDigit(s[1])

\* the digits of a matched field (the day may carry a leading blank)
FieldVal(s) == IF s[1] = " " THEN NumVal(Tail(s)) ELSE NumVal(s)

\* the character at position i, "" beyond the end of s
At(s, i) == IF i \in 1..Len(s) THEN s[i] ELSE ""

\* the characters a..b of s, nothing unless they all exist
Sub(s, a, b) == IF 1 <= a /\ a <= b /\ b <= Len(s) THEN SubSeq(s, a, b) ELSE <<>>

\* the first position from i on that holds no white space
RECURSIVE SkipSpaces(_, _)
SkipSpaces(s, i) == IF IsSpace(At(s, i)) THEN SkipSpaces(s, i + 1) ELSE i

\* datetime.strptime(s, '%Y-%m-%d %H:%M'): the datetime, or ValueError.  The
\* format compiles to  Y '-' m '-' d \s+ H ':' M  and must match s from its
\* first to its last character.  A field is one or two characters and the
\* separators are not digits, so where each field ends is decided by where the
\* next separator stands.
strptime(s) ==
    LET mEnd   == IF At(s, 7) = "-" THEN 6 ELSE 7
        dStart == mEnd + 2
        dEnd   == IF At(s, dStart) # " " /\ IsSpace(At(s, dStart + 1))
                  THEN dStart ELSE dStart + 1
        hStart == SkipSpaces(s, dEnd + 1)
        hEnd   == IF At(s, hStart + 1) = ":" THEN hStart ELSE hStart + 1
        Y      == Sub(s, 1, 4)
        m      == Sub(s, 6, mEnd)
        d      == Sub(s, dStart, dEnd)
        H      == Sub(s, hStart, hEnd)
        M      == Sub(s, hEnd + 2, Len(s))
        dt     == DT(NumVal(Y), FieldVal(m), FieldVal(d), FieldVal(H), FieldVal(M))
    IN  IF /\ YearPat(Y) /\ At(s, 5) = "-"
           /\ MonthPat(m) /\ At(s, mEnd + 1) = "-"
           /\ DayPat(d) /\ hStart > dEnd + 1
           /\ HourPat(H) /\ At(s, hEnd + 1) = ":"
           /\ MinutePat(M)
           /\ ValidDate(dt)
        THEN [ok |-> TRUE, value |-> dt]
        ELSE [ok |-> FALSE]

\* strftime's %Y: four digits where the C library zero-fills the year, the
\* bare decimal number where it does not (glibc)
YearStr(y, pad) == IF pad THEN ZeroPad(y, 4) ELSE NumStr(y)

\* dt.strftime('%Y-%m-%d %H:%M')
strftime(dt, pad) ==
    YearStr(dt.year, pad) \o <<"-">> \o ZeroPad(dt.month, 2) \o <<"-">>
        \o ZeroPad(dt.day, 2) \o <<" ">> \o ZeroPad(dt.hour, 2) \o <<":">>
        \o ZeroPad(dt.minute, 2)

----------------------------------------------------------------------------
(* Event and the persisted file *)

\* Event.__init__: `tags or []` keeps a non-empty list and yields [] for an empty one
Event(t, d, tags) ==
    [title |-> t, date_time |-> d, tags |-> IF tags = <<>> THEN <<>> ELSE tags]

AbsentFile == [state |-> "absent", data |-> <<>>]
CorruptFile == [state |-> "corrupt", data |-> <<>>]

\* save_events, lines 75-79: one JSON object per event, the date as a string
EventsData(evs, pad) ==
    [i \in 1..Len(evs) |->
        [title     |-> evs[i].title,
         date_time |-> strftime(evs[i].date_time, pad),
         tags      |-> evs[i].tags]]

\* a save_events that returns early on an empty list
WriteFileSkipEmpty(f, evs, pad, w) ==
    IF evs = <<>> \/ w = "open_fails" THEN f
    ELSE IF w = "ok" THEN [state |-> "json", data |-> EventsData(evs, pad)]
    ELSE CorruptFile

\* save_events, lines 80-81.  open(..., 'w') truncates the file and json.dump
\* fills it; w is what the file system does: "ok", "open_fails" (nothing is
\* touched), "dump_fails" (the file is left truncated or half written).
WriteFile(f, evs, pad, w) ==
    IF w = "ok" THEN [state |-> "json", data |-> EventsData(evs, pad)]
    ELSE IF w = "open_fails" THEN f
    ELSE CorruptFile

WriteOutcomes == {"ok", "open_fails", "dump_fails"}

\* event_decoder: the date string of a decoded object becomes a datetime
event_decoder(obj) ==
    LET r == strptime(obj.date_time)
    IN  IF r.ok
        THEN [ok |-> TRUE,
              value |-> [title |-> obj.title, date_time |-> r.value, tags |-> obj.tags]]
        ELSE [ok |-> FALSE]

\* load_events: [] for a missing file; a ValueError of the JSON parser or of
\* event_decoder is not caught
load_events(f) ==
    IF f.state = "absent" THEN [ok |-> TRUE, value |-> <<>>]
    ELSE IF f.state = "corrupt" THEN [ok |-> FALSE]
    ELSE IF \E i \in 1..Len(f.data) : ~event_decoder(f.data[i]).ok THEN [ok |-> FALSE]
    ELSE [ok |-> TRUE,
          value |-> [i \in 1..Len(f.data) |->
                        LET o == event_decoder(f.data[i]).value
                        IN  Event(o.title, o.date_time, o.tags)]]

----------------------------------------------------------------------------
(* The handlers' computations *)

\* a loop that keeps going and ends on the last event titled t
FindLast(evs, t, i) ==
    IF \E k \in i..Len(evs) : evs[k].title = t
    THEN CHOOSE k \in i..Len(evs) :
            evs[k].title = t /\ \A j \in (k + 1)..Len(evs) : evs[j].title # t
    ELSE 0

\* a loop that tests `title in event.title` instead of equality
RECURSIVE FindFirstContaining(_, _, _)
FindFirstContaining(evs, t, i) ==
    IF i > Len(evs) THEN 0
    ELSE IF Contains(evs[i].title, t) THEN i
    ELSE FindFirstContaining(evs, t, i + 1)

\* the for loop of edit_event and delete_event: the index of the first event
\* whose title equals t, 0 when the loop runs out
RECURSIVE FindFirst(_, _, _)
FindFirst(evs, t, i) ==
    IF i > Len(evs) THEN 0
    ELSE IF evs[i].title = t THEN i
    ELSE FindFirst(evs, t, i + 1)

\* self.events.remove(event) for the event the loop stopped at: Event defines
\* no __eq__, so remove() drops that very object
RemoveAt(evs, i) == SubSeq(evs, 1, i - 1) \o SubSeq(evs, i + 1, Len(evs))

\* an add_event that does self.events.insert(0, event)
AddToFront(evs, e) == <<e>> \o evs

\* add_event, line 95: self.events.append(event)
AddTo(evs, e) == Append(evs, e)

\* an edit_event whose loop does not return: every event titled like the
\* found one gets the new fields
EditAllTitled(evs, i, t, d, tags) ==
    [j \in 1..Len(evs) |->
        IF evs[j].title = evs[i].title
        THEN [title |-> t, date_time |-> d, tags |-> tags]
        ELSE evs[j]]

\* edit_event, lines 121-123: the three assignments to the found event
EditAt(evs, i, t, d, tags) ==
    [evs EXCEPT ![i] = [title |-> t, date_time |-> d, tags |-> tags]]

\* a search that looks at the title only
MatchesTitleOnly(e, query) == Contains(e.title, query)

\* search_event, line 101: the condition of the comprehension
Matches(e, query) ==
    Contains(e.title, query) \/ \E j \in 1..Len(e.tags) : Contains(e.tags[j], query)

\* search_event, line 101: the comprehension, in list order
RECURSIVE SearchResults(_, _)
SearchResults(evs, query) ==
    IF evs = <<>> THEN <<>>
    ELSE (IF Matches(Head(evs), query) THEN <<Head(evs)>> ELSE <<>>)
            \o SearchResults(Tail(evs), query)

\* timedelta(days=7), in days
HorizonDays == 7

\* a filter that leaves out the events already past
WithinHorizonFuture(e, t) ==
    Minutes(e.date_time) - t >= 0 /\ Minutes(e.date_time) - t <= HorizonDays * 24 * 60

\* show_upcoming_events, line 143: the condition of the comprehension, with the
\* clock reading t (whole minutes) that time_until_event takes for this event.
\* date_time has no seconds, so the part of datetime.now() below the minute
\* does not change the comparison with a whole number of days
WithinHorizon(e, t) == Minutes(e.date_time) - t <= HorizonDays * 24 * 60

\* show_upcoming_events, line 143: the comprehension; rs[i] is the i-th reading
RECURSIVE UpcomingFilter(_, _)
UpcomingFilter(evs, rs) ==
    IF evs = <<>> THEN <<>>
    ELSE (IF WithinHorizon(Head(evs), Head(rs)) THEN <<Head(evs)>> ELSE <<>>)
            \o UpcomingFilter(Tail(evs), Tail(rs))

\* the key of the sort, line 145: datetimes compare as points in time
SortKey(e) == Minutes(e.date_time)

\* sorted(), line 145: ascending by key and stable; e goes behind the events
\* whose key is not larger
RECURSIVE InsertSorted(_, _)
InsertSorted(srt, e) ==
    IF srt = <<>> THEN <<e>>
    ELSE IF SortKey(e) < SortKey(Head(srt)) THEN <<e>> \o srt
    ELSE <<Head(srt)>> \o InsertSorted(Tail(srt), e)

RECURSIVE Sorted(_)
Sorted(evs) ==
    IF evs = <<>> THEN <<>>
    ELSE InsertSorted(Sorted(SubSeq(evs, 1, Len(evs) - 1)), evs[Len(evs)])

----------------------------------------------------------------------------
(* The error wrapper and the command loop *)

\* the handlers that carry @handle_error (lines 83, 140, 151); search_event,
\* edit_event and delete_event (lines 99, 108, 130) carry none
Wrapped == {"add_event", "show_upcoming_events", "show_all_events"}

\* common.handle_error: the wrapper reports the exception and returns; an
\* exception of an undecorated handler leaves the handler
Disposition(method) == IF method \in Wrapped THEN "caught" ELSE "escaped"

\* CommandHandler.handle_command calls the bound handler; run_event_manager's
\* loop (lines 194-200) has no try, so an escaped exception ends the process
AfterRaise(method) == IF Disposition(method) = "caught" THEN "menu" ELSE "crashed"

----------------------------------------------------------------------------
(* Texts typed at the prompts *)

Standup == <<"S", "t", "a", "n", "d", "u", "p">>
Work == <<"w", "o", "r", "k">>

TitleInputs == {Standup, <<"u", "p">>}

DateInputs ==
    { <<"2","0","9","9","-","0","1","-","0","1"," ","0","9",":","0","0">>,
      <<"2","0","9","8","-","1","2","-","3","1"," ","9",":","5">>,
      <<"2","0","9","9","-","0","2","-","3","0"," ","0","9",":","0","0">>,
      <<"2","0","9","9","-","0","1","-","0","1">> }

TagInputs == {Work, <<"w", ",", "u", "p">>}

QueryInputs == {Work, <<"u", "p">>, <<"U", "p">>, <<>>}

\* the locals of a handler that is not running
NoText == <<>>
NoDate == DT(0, 0, 0, 0, 0)

\* the clock at the start
Now0 == DT(2098, 12, 25, 9, 0)
ClockEnd == Minutes(Now0) + MaxTicks

----------------------------------------------------------------------------
(* The process *)

\* a process that has just started: no handler has run, nothing was typed or
\* shown
QuietInit ==
    /\ title = NoText /\ new_title = NoText /\ date_time = NoDate /\ event = 0
    /\ handler = ""
    /\ inp = NoText
    /\ lastMsg = "none"
    /\ shown = <<>>
    /\ now = Minutes(Now0)
    /\ readings = <<>>
    /\ raised = "none"
    /\ wfail = FALSE
    /\ loaded = [ok |-> TRUE, value |-> <<>>]

\* run_event_manager on a machine with no events.json yet: EventManager.__init__
\* loads the empty list and the menu is shown
Init ==
    /\ events = <<>>
    /\ file = AbsentFile
    /\ pc = "menu"
    /\ padYear \in BOOLEAN
    /\ QuietInit

ResetLocals ==
    title' = NoText /\ new_title' = NoText /\ date_time' = NoDate /\ event' = 0

\* The end of a handler that called save_events with outcome w after changing
\* the list to evs and telling the view msg.  A failed write raises OSError;
\* when that ends the process the list is gone with it.
Persist(method, evs, msg, w) ==
    /\ file' = WriteFile(file, evs, padYear, w)
    /\ wfail' = (w # "ok")
    /\ raised' = IF w = "ok" THEN "none" ELSE Disposition(method)
    /\ pc' = IF w = "ok" THEN "menu" ELSE AfterRaise(method)
    /\ events' = IF w # "ok" /\ AfterRaise(method) = "crashed" THEN <<>> ELSE evs
    /\ lastMsg' = IF w # "ok" /\ Disposition(method) = "caught" THEN "error" ELSE msg
    /\ ResetLocals

\* add_event up to its first prompt, lines 84-85
AddTitle(t) ==
    /\ pc = "menu"
    /\ handler' = "add_event"
    /\ Len(events) < MaxEvents
    /\ title' = t
    /\ inp' = t
    /\ pc' = "add_date"
    /\ lastMsg' = "none" /\ shown' = <<>> /\ readings' = <<>> /\ raised' = "none"
    /\ UNCHANGED <<events, file, new_title, date_time, event, now, wfail, padYear,
                   loaded>>

\* add_event, one turn of the loop of lines 86-92
AddDate(s) ==
    /\ pc = "add_date"
    /\ handler' = "add_event"
    /\ inp' = s
    /\ IF strptime(s).ok
       THEN date_time' = strptime(s).value /\ pc' = "add_tags" /\ lastMsg' = "none"
       ELSE lastMsg' = "bad_date" /\ UNCHANGED <<date_time, pc>>
    /\ shown' = <<>> /\ readings' = <<>> /\ raised' = "none"
    /\ UNCHANGED <<events, file, title, new_title, event, now, wfail, padYear,
                   loaded>>

\* add_event, lines 93-97, under handle_error
AddTags(s, w) ==
    /\ pc = "add_tags"
    /\ handler' = "add_event"
    /\ inp' = s
    /\ Persist("add_event", AddTo(events, Event(title, date_time, Split(s))),
               "added", w)
    /\ shown' = <<>> /\ readings' = <<>>
    /\ UNCHANGED <<now, padYear, loaded>>

\* search_event, lines 99-106
SearchEvent(query) ==
    /\ pc = "menu"
    /\ handler' = "search_event"
    /\ inp' = query
    /\ LET results == SearchResults(events, query)
       IN  IF results # <<>>
           THEN lastMsg' = "results" /\ shown' = results
           ELSE lastMsg' = "no_results" /\ shown' = <<>>
    /\ readings' = <<>> /\ raised' = "none"
    /\ UNCHANGED <<events, file, pc, title, new_title, date_time, event, now,
                   wfail, padYear, loaded>>

\* edit_event, lines 109-112 and 128: the prompt for the title and the loop
\* that looks for it; the handler goes on only when an event was found
EditTitle(t) ==
    /\ pc = "menu"
    /\ handler' = "edit_event"
    /\ inp' = t
    /\ LET i == FindFirst(events, t, 1)
       IN  IF i = 0
           THEN lastMsg' = "not_found" /\ UNCHANGED <<pc, title, event>>
           ELSE lastMsg' = "none" /\ title' = t /\ event' = i /\ pc' = "edit_new_title"
    /\ shown' = <<>> /\ readings' = <<>> /\ raised' = "none"
    /\ UNCHANGED <<events, file, new_title, date_time, now, wfail, padYear, loaded>>

\* edit_event, line 112
EditNewTitle(t) ==
    /\ pc = "edit_new_title"
    /\ handler' = "edit_event"
    /\ inp' = t
    /\ new_title' = t
    /\ pc' = "edit_date"
    /\ lastMsg' = "none" /\ shown' = <<>> /\ readings' = <<>> /\ raised' = "none"
    /\ UNCHANGED <<events, file, title, date_time, event, now, wfail, padYear,
                   loaded>>

\* edit_event, one turn of the loop of lines 113-119
EditDate(s) ==
    /\ pc = "edit_date"
    /\ handler' = "edit_event"
    /\ inp' = s
    /\ IF strptime(s).ok
       THEN date_time' = strptime(s).value /\ pc' = "edit_tags" /\ lastMsg' = "none"
       ELSE lastMsg' = "bad_date" /\ UNCHANGED <<date_time, pc>>
    /\ shown' = <<>> /\ readings' = <<>> /\ raised' = "none"
    /\ UNCHANGED <<events, file, title, new_title, event, now, wfail, padYear,
                   loaded>>

\* edit_event, lines 120-127: the event is shown before the list is saved
EditTags(s, w) ==
    /\ pc = "edit_tags"
    /\ handler' = "edit_event"
    /\ inp' = s
    /\ LET evs == EditAt(events, event, new_title, date_time, Split(s))
       IN  /\ Persist("edit_event", evs, "edited", w)
           /\ shown' = <<evs[event]>>
    /\ readings' = <<>>
    /\ UNCHANGED <<now, padYear, loaded>>

\* delete_event, lines 130-138
DeleteEvent(t, w) ==
    /\ pc = "menu"
    /\ handler' = "delete_event"
    /\ inp' = t
    /\ LET i == FindFirst(events, t, 1)
       IN  IF i = 0
           THEN /\ lastMsg' = "not_found"
                /\ raised' = "none"
                /\ UNCHANGED <<events, file, pc, title, new_title, date_time, event,
                               wfail>>
           ELSE Persist("delete_event", RemoveAt(events, i), "deleted", w)
    /\ shown' = <<>> /\ readings' = <<>>
    /\ UNCHANGED <<now, padYear, loaded>>

\* show_upcoming_events, lines 141-149.  time_until_event reads the clock once
\* per event; the events from the k-th on are read after the clock has moved to
\* the next minute (k = Len(events) + 1: it does not move).
ShowUpcoming(k) ==
    /\ pc = "menu"
    /\ handler' = "show_upcoming_events"
    /\ k \in 1..(Len(events) + 1)
    /\ k <= Len(events) => now < ClockEnd
    /\ LET rs == [i \in 1..Len(events) |-> IF i < k THEN now ELSE now + 1]
           upcoming_events == UpcomingFilter(events, rs)
       IN  /\ readings' = rs
           /\ now' = IF k <= Len(events) THEN now + 1 ELSE now
           /\ IF upcoming_events # <<>>
              THEN lastMsg' = "upcoming" /\ shown' = Sorted(upcoming_events)
              ELSE lastMsg' = "no_upcoming" /\ shown' = <<>>
    /\ inp' = NoText /\ raised' = "none"
    /\ UNCHANGED <<events, file, pc, title, new_title, date_time, event, wfail,
                   padYear, loaded>>

\* show_all_events, lines 152-156
ShowAll ==
    /\ pc = "menu"
    /\ handler' = "show_all_events"
    /\ IF events = <<>>
       THEN lastMsg' = "no_events" /\ shown' = <<>>
       ELSE lastMsg' = "all" /\ shown' = events
    /\ inp' = NoText /\ readings' = <<>> /\ raised' = "none"
    /\ UNCHANGED <<events, file, pc, title, new_title, date_time, event, now,
                   wfail, padYear, loaded>>

\* run_event_manager, lines 197-198: choice '0' returns; the list is gone with
\* the process
Exit ==
    /\ pc = "menu"
    /\ handler' = "run_event_manager"
    /\ pc' = "exited"
    /\ events' = <<>>
    /\ inp' = NoText /\ lastMsg' = "none" /\ shown' = <<>> /\ readings' = <<>>
    /\ raised' = "none" /\ wfail' = FALSE
    /\ UNCHANGED <<file, title, new_title, date_time, event, now, padYear, loaded>>

\* run_event_manager, lines 188-192, run again: EventManager.__init__ loads the
\* file; nothing catches what load_events raises
Start ==
    /\ pc \in {"exited", "crashed"}
    /\ handler' = "run_event_manager"
    /\ LET r == load_events(file)
       IN  IF r.ok
           THEN events' = r.value /\ pc' = "menu" /\ raised' = "none"
           ELSE events' = <<>> /\ pc' = "crashed" /\ raised' = "escaped"
    /\ inp' = NoText /\ lastMsg' = "none" /\ shown' = <<>> /\ readings' = <<>>
    /\ wfail' = FALSE
    /\ UNCHANGED <<file, title, new_title, date_time, event, now, padYear, loaded>>

\* a minute passes
Tick ==
    /\ now < ClockEnd
    /\ now' = now + 1
    /\ UNCHANGED <<events, file, pc, title, new_title, date_time, event, handler,
                   inp, lastMsg, shown, readings, raised, wfail, padYear, loaded>>

\* The command loop.  The clock stands still here: show_upcoming_events takes
\* all its readings in the same minute (UpcomingSpec moves the clock).
Next ==
    \/ \E t \in TitleInputs : AddTitle(t)
    \/ \E s \in DateInputs : AddDate(s)
    \/ \E s \in TagInputs, w \in WriteOutcomes : AddTags(s, w)
    \/ \E q \in QueryInputs : SearchEvent(q)
    \/ \E t \in TitleInputs : EditTitle(t)
    \/ \E t \in TitleInputs : EditNewTitle(t)
    \/ \E s \in DateInputs : EditDate(s)
    \/ \E s \in TagInputs, w \in WriteOutcomes : EditTags(s, w)
    \/ \E t \in TitleInputs, w \in WriteOutcomes : DeleteEvent(t, w)
    \/ ShowUpcoming(Len(events) + 1)
    \/ ShowAll
    \/ Exit
    \/ Start

Spec == Init /\ [][Next]_vars

----------------------------------------------------------------------------
(* save_events followed by load_events, on every list the store can hold *)

\* the lists of at most n elements of S
SeqsUpTo(S, n) == UNION {[1..k -> S] : k \in 0..n}

CodecTitles == {Standup, <<>>}

\* datetimes add_event accepts: the ends of the range, a leap day, a year
\* below 1000
CodecDates ==
    {DT(2099, 1, 1, 9, 0), DT(999, 12, 31, 23, 59), DT(1000, 1, 1, 0, 0),
     DT(9999, 12, 31, 23, 59), DT(2096, 2, 29, 0, 5)}

CodecTags == {<<>>, <<NoText>>, <<Work, <<"u", "p">>>>}

CodecEvents ==
    {Event(t, d, g) : t \in CodecTitles, d \in CodecDates, g \in CodecTags}

CodecInit ==
    /\ events \in SeqsUpTo(CodecEvents, MaxEvents)
    /\ file = AbsentFile
    /\ pc = "save"
    /\ padYear \in BOOLEAN
    /\ QuietInit

\* save_events, lines 74-81, the write succeeding
CodecSave ==
    /\ pc = "save"
    /\ file' = WriteFile(file, events, padYear, "ok")
    /\ pc' = "load"
    /\ handler' = "save_events"
    /\ UNCHANGED <<events, title, new_title, date_time, event, inp, lastMsg, shown,
                   now, readings, raised, wfail, padYear, loaded>>

\* load_events, lines 55-67, on the file just written
CodecLoad ==
    /\ pc = "load"
    /\ loaded' = load_events(file)
    /\ raised' = IF load_events(file).ok THEN "none" ELSE "escaped"
    /\ pc' = "done"
    /\ handler' = "load_events"
    /\ UNCHANGED <<events, file, title, new_title, date_time, event, inp, lastMsg,
                   shown, now, readings, wfail, padYear>>

CodecNext == CodecSave \/ CodecLoad

CodecSpec == CodecInit /\ [][CodecNext]_vars

----------------------------------------------------------------------------
(* search_event on every store content and query *)

SearchAlphabet == {"a", "A"}

SearchTitles == {<<"a", "A">>, <<"A">>, <<>>}

SearchTags == {<<>>, <<<<"a">>>>, <<<<"A", "a">>, <<"a", "a">>>>}

SearchEvents ==
    {Event(t, DT(2099, 1, 1, 9, 0), g) : t \in SearchTitles, g \in SearchTags}

SearchInit ==
    /\ events \in SeqsUpTo(SearchEvents, MaxEvents)
    /\ padYear \in BOOLEAN
    /\ file = IF events = <<>> THEN AbsentFile
              ELSE WriteFile(AbsentFile, events, padYear, "ok")
    /\ pc = "menu"
    /\ QuietInit

SearchNext == \E q \in SeqsUpTo(SearchAlphabet, MaxLen) : SearchEvent(q)

SearchSpec == SearchInit /\ [][SearchNext]_vars

----------------------------------------------------------------------------
(* show_upcoming_events on stores around the horizon, the clock moving *)

\* the longest store of UpcomingSpec
MaxUpcoming == 3

\* Now0 - 1 day, + 1 hour, + 3 days, + 7 days, + 7 days 1 minute, + 10 days
UpcomingDates ==
    {DT(2098, 12, 24, 9, 0), DT(2098, 12, 25, 10, 0), DT(2098, 12, 28, 9, 0),
     DT(2099, 1, 1, 9, 0), DT(2099, 1, 1, 9, 1), DT(2099, 1, 4, 9, 0)}

UpcomingEvents ==
    {Event(Standup, d, <<Work>>) : d \in UpcomingDates}
        \cup {Event(<<"u", "p">>, DT(2098, 12, 28, 9, 0), <<Work>>)}

UpcomingInit ==
    /\ events \in SeqsUpTo(UpcomingEvents, MaxUpcoming)
    /\ padYear \in BOOLEAN
    /\ file = IF events = <<>> THEN AbsentFile
              ELSE WriteFile(AbsentFile, events, padYear, "ok")
    /\ pc = "menu"
    /\ QuietInit

UpcomingNext ==
    \/ \E k \in 1..(MaxUpcoming + 1) : ShowUpcoming(k)
    \/ Tick

UpcomingSpec == UpcomingInit /\ [][UpcomingNext]_vars

----------------------------------------------------------------------------
(* Vocabulary of the properties *)

\* q is a run of consecutive characters of s
Occurs(q, s) ==
    \E i \in 0..Len(s) : \E j \in i..Len(s) : SubSeq(s, i + 1, j) = q

\* the title or some tag of e has q in it
Hit(e, q) == Occurs(q, e.title) \/ \E g \in 1..Len(e.tags) : Occurs(q, e.tags[g])

\* the elements of evs at the positions M, in the order of evs
PickAt(evs, M) ==
    [k \in 1..Cardinality(M) |->
        evs[CHOOSE i \in M : Cardinality({j \in M : j < i}) = k - 1]]

\* the numbers written in a text, from left to right
NumbersIn(s) ==
    LET starts == {i \in 1..Len(s) : IsDigit(s[i]) /\ (i = 1 \/ ~IsDigit(s[i - 1]))}
        EndOf(i) == CHOOSE j \in i..Len(s) :
                        /\ \A k \in i..j : IsDigit(s[k])
                        /\ (j = Len(s) \/ ~IsDigit(s[j + 1]))
        runs == PickAt([i \in 1..Len(s) |-> i], starts)
    IN  [k \in 1..Len(runs) |-> NumVal(SubSeq(s, runs[k], EndOf(runs[k])))]

\* the JSON object rec records the event e
Records(rec, e) ==
    /\ rec.title = e.title
    /\ rec.tags = e.tags
    /\ NumbersIn(rec.date_time) = <<e.date_time.year, e.date_time.month, e.date_time.day,
                                    e.date_time.hour, e.date_time.minute>>

\* the file holds exactly the list evs
FileHolds(f, evs) ==
    /\ f.state = "json"
    /\ Len(f.data) = Len(evs)
    /\ \A i \in 1..Len(evs) : Records(f.data[i], evs[i])

\* the positions of the events titled t
Titled(evs, t) == {i \in 1..Len(evs) : evs[i].title = t}

\* d names a minute of the calendar
CalendarDate(d) ==
    /\ d.year \in 1..9999 /\ d.month \in 1..12
    /\ d.day >= 1
    /\ d.day <= (IF d.month = 2
                 THEN (IF d.year % 4 = 0 /\ (d.year % 100 # 0 \/ d.year % 400 = 0)
                       THEN 29 ELSE 28)
                 ELSE IF d.month \in {4, 6, 9, 11} THEN 30 ELSE 31)
    /\ d.hour \in 0..23 /\ d.minute \in 0..59

\* d1 is a later minute than d2
Later(d1, d2) ==
    LET a == <<d1.year, d1.month, d1.day, d1.hour, d1.minute>>
        b == <<d2.year, d2.month, d2.day, d2.hour, d2.minute>>
    IN  \E k \in 1..5 : a[k] > b[k] /\ \A j \in 1..(k - 1) : a[j] = b[j]

\* how often x stands in the list evs
Count(evs, x) == Cardinality({i \in 1..Len(evs) : evs[i] = x})

StandupEvent == [title |-> Standup, date_time |-> DT(2099, 1, 1, 9, 0), tags |-> <<Work>>]

----------------------------------------------------------------------------
(* C1 *)

\* C1: at the menu, unless the last write failed, the file holds exactly the
\* in-memory list (same events, same order, same title, date_time and tags; no
\* file yet only while the list is still empty); and a command that leaves the
\* list as it was leaves the file as it was.
C1_FileHoldsList ==
    /\ [](pc = "menu" /\ ~wfail =>
            \/ events = <<>> /\ file.state = "absent"
            \/ FileHolds(file, events))
    /\ [][pc = "menu" /\ pc' = "menu" /\ events' = events => file' = file]_vars

C1_Witness ==
    /\ pc = "menu" /\ ~wfail /\ handler = "edit_event" /\ lastMsg = "edited"
    /\ Len(events) = 2 /\ FileHolds(file, events)

----------------------------------------------------------------------------
(* C2 *)

\* C2: save_events followed by load_events yields a list of the same length
\* and order in which each event has the same title, date_time and tags.
C2_RoundTrip ==
    pc = "done" =>
        /\ loaded.ok
        /\ Len(loaded.value) = Len(events)
        /\ \A i \in 1..Len(events) :
              /\ loaded.value[i].title = events[i].title
              /\ loaded.value[i].date_time = events[i].date_time
              /\ loaded.value[i].tags = events[i].tags

----------------------------------------------------------------------------
(* C3 *)

\* C3: search shows exactly the events whose title or one of whose tags has
\* the query in it as a case-sensitive substring, in store order, reports
\* no-results exactly when there is none, and leaves the store and the file
\* unchanged.
C3_SearchExact ==
    /\ [](handler = "search_event" =>
            LET M == {i \in 1..Len(events) : Hit(events[i], inp)}
            IN  /\ shown = PickAt(events, M)
                /\ lastMsg = IF M = {} THEN "no_results" ELSE "results")
    /\ [][handler' = "search_event" => events' = events /\ file' = file]_vars

C3_Witness ==
    /\ handler = "search_event" /\ lastMsg = "results" /\ inp # <<>>
    /\ Len(shown) < Len(events)
    /\ \E k \in 1..Len(shown) : ~Occurs(inp, shown[k].title)

----------------------------------------------------------------------------
(* C4 *)

\* C4: upcoming shows exactly the events whose date_time minus the clock, as
\* read for that event, is at most 7 days, past events among them, in ascending
\* order of date_time; of events at now + 1 hour, now + 3 days and now + 10 days
\* it shows the first two, in that order.
C4_Upcoming ==
    handler = "show_upcoming_events" =>
        LET sel == {i \in 1..Len(events) :
                        Minutes(events[i].date_time) - readings[i] <= 7 * 24 * 60}
        IN  /\ Len(readings) = Len(events)
            /\ Len(shown) = Cardinality(sel)
            /\ \A i \in sel : Count(shown, events[i]) = Count(PickAt(events, sel), events[i])
            /\ \A i \in 1..Len(events) :
                  Later([year |-> 2098, month |-> 12, day |-> 25, hour |-> 9, minute |-> 0],
                        events[i].date_time) => Count(shown, events[i]) > 0
            /\ \A a \in 1..Len(shown) : \A b \in a..Len(shown) :
                  ~Later(shown[a].date_time, shown[b].date_time)
            /\ lastMsg = IF sel = {} THEN "no_upcoming" ELSE "upcoming"
            /\ (Len(events) = 3 /\ {events[i].date_time : i \in 1..3} =
                    {DT(2098, 12, 25, 10, 0), DT(2098, 12, 28, 9, 0), DT(2099, 1, 4, 9, 0)}
                => [k \in 1..Len(shown) |-> shown[k].date_time] =
                    <<DT(2098, 12, 25, 10, 0), DT(2098, 12, 28, 9, 0)>>)

C4_Witness ==
    /\ handler = "show_upcoming_events"
    /\ [k \in 1..Len(events) |-> events[k].date_time] =
            <<DT(2098, 12, 28, 9, 0), DT(2099, 1, 4, 9, 0), DT(2098, 12, 25, 10, 0)>>
    /\ [k \in 1..Len(shown) |-> shown[k].date_time] =
            <<DT(2098, 12, 25, 10, 0), DT(2098, 12, 28, 9, 0)>>

----------------------------------------------------------------------------
(* C5 *)

\* C5: delete(title) with an event of that title removes the first such event
\* and no other, every other event staying in its order, and the reduced list is
\* in the file once the write has succeeded; with no such event the store and
\* the file stay as they were and not-found is reported.
C5_DeleteFirst ==
    [][handler' = "delete_event" =>
        IF Titled(events, inp') # {}
        THEN raised' = "none" =>
                LET i == CHOOSE k \in Titled(events, inp') :
                            \A j \in Titled(events, inp') : k <= j
                IN  /\ Len(events') = Len(events) - 1
                    /\ \A j \in 1..(i - 1) : events'[j] = events[j]
                    /\ \A j \in i..Len(events') : events'[j] = events[j + 1]
                    /\ FileHolds(file', events')
                    /\ lastMsg' = "deleted" /\ pc' = "menu"
        ELSE /\ events' = events /\ file' = file
             /\ lastMsg' = "not_found" /\ pc' = "menu"]_vars

C5_Witness ==
    /\ handler = "delete_event" /\ lastMsg = "deleted" /\ raised = "none"
    /\ Len(events) = 1 /\ events[1].title = inp
    /\ FileHolds(file, events)

----------------------------------------------------------------------------
(* C6 *)

\* C6: edit with a title no event has leaves the list and the file unchanged,
\* asks for no new title, date or tags, and reports not-found.
C6_EditMissing ==
    [][handler' = "edit_event" /\ pc = "menu" /\ Titled(events, inp') = {} =>
        /\ events' = events /\ file' = file
        /\ pc' = "menu"
        /\ lastMsg' = "not_found"]_vars

C6_Witness ==
    /\ handler = "edit_event" /\ lastMsg = "not_found" /\ pc = "menu"
    /\ events # <<>> /\ Titled(events, inp) = {}

----------------------------------------------------------------------------
(* C7 *)

\* C7: add appends exactly one event with the title, date_time and tags given,
\* at the end, whether or not the title is already there, leaves the events
\* before it as they were, and the file holds the list once the write has
\* succeeded; from the empty store, add("Standup", 2099-01-01 09:00, ["work"])
\* makes all() show exactly that event, search("work") shows it, and
\* delete("Standup") then empties the store.
C7_AddAppends ==
    [][/\ handler' = "add_event" /\ pc = "add_tags" =>
            /\ Len(events') = Len(events) + 1
            /\ \A j \in 1..Len(events) : events'[j] = events[j]
            /\ events'[Len(events')] =
                    [title |-> title, date_time |-> date_time, tags |-> Split(inp')]
            /\ pc' = "menu"
            /\ raised' = "none" => FileHolds(file', events') /\ lastMsg' = "added"
       /\ handler' = "add_event" /\ pc = "add_tags" /\ events = <<>> /\ title = Standup
            /\ date_time = DT(2099, 1, 1, 9, 0) /\ inp' = Work
            => events' = <<StandupEvent>>
       /\ events = <<StandupEvent>> /\ handler' = "show_all_events"
            => shown' = <<StandupEvent>>
       /\ events = <<StandupEvent>> /\ handler' = "search_event" /\ inp' = Work
            => shown' = <<StandupEvent>>
       /\ events = <<StandupEvent>> /\ handler' = "delete_event" /\ inp' = Standup
            => events' = <<>> ]_vars

C7_Witness ==
    /\ handler = "add_event" /\ lastMsg = "added" /\ pc = "menu"
    /\ Len(events) = 2 /\ events[1].title = events[2].title
    /\ events[1] = StandupEvent
    /\ FileHolds(file, events)

----------------------------------------------------------------------------
(* C8 *)

\* C8: an error raised while add, upcoming, all, search, edit or delete runs is
\* caught by the error wrapper, and the command loop goes on to the next command.
C8_ErrorsCaught ==
    handler \in {"add_event", "show_upcoming_events", "show_all_events",
                 "search_event", "edit_event", "delete_event"} /\ raised # "none"
        => raised = "caught" /\ pc = "menu"

----------------------------------------------------------------------------
(* C9 *)

\* C9: edit with a title some event has stops at the first such event, and,
\* once the new title, date and tags are in, replaces the three fields of that
\* event and of no other: the length of the list, the place of the edited event
\* and every other event stay as they were, and the file holds the list once
\* the write has succeeded.
C9_EditFirst ==
    [][handler' = "edit_event" =>
        /\ pc = "menu" /\ Titled(events, inp') # {} =>
                /\ pc' = "edit_new_title" /\ title' = inp'
                /\ event' \in Titled(events, inp')
                /\ \A j \in Titled(events, inp') : event' <= j
                /\ events' = events /\ file' = file
        /\ pc \in {"edit_new_title", "edit_date"} =>
                /\ event' = event /\ title' = title
                /\ events' = events /\ file' = file
        /\ pc = "edit_tags" /\ raised' = "none" =>
                /\ event \in Titled(events, title)
                /\ \A j \in Titled(events, title) : event <= j
                /\ Len(events') = Len(events)
                /\ events'[event] =
                        [title |-> new_title, date_time |-> date_time, tags |-> Split(inp')]
                /\ \A j \in 1..Len(events) : j # event => events'[j] = events[j]
                /\ FileHolds(file', events')
                /\ lastMsg' = "edited" /\ pc' = "menu"]_vars

C9_Witness ==
    /\ handler = "edit_event" /\ lastMsg = "edited" /\ raised = "none" /\ pc = "menu"
    /\ Len(events) = 2 /\ shown = <<events[1]>>
    /\ events[1].title # events[2].title
    /\ FileHolds(file, events)

----------------------------------------------------------------------------
(* C10 *)

\* C10: while add or edit is given a date that does not parse under
\* '%Y-%m-%d %H:%M' it asks for the date again and the store, the file and what
\* was entered before stay as they were; a date that parses is taken as the
\* event's date; so every event in the store has a date_time that names a
\* minute of the calendar.
C10_DateReprompt ==
    /\ [](\A i \in 1..Len(events) : CalendarDate(events[i].date_time))
    /\ [][(pc \in {"add_date", "edit_date"}) =>
            IF strptime(inp').ok
            THEN /\ date_time' = strptime(inp').value
                 /\ CalendarDate(date_time')
                 /\ pc' = (IF pc = "add_date" THEN "add_tags" ELSE "edit_tags")
                 /\ events' = events /\ file' = file
            ELSE /\ UNCHANGED <<title, new_title, date_time, event>>
                 /\ events' = events /\ file' = file
                 /\ pc' = pc /\ lastMsg' = "bad_date"]_vars

C10_Witness ==
    /\ pc \in {"add_date", "edit_date"} /\ lastMsg = "bad_date"
    /\ ~strptime(inp).ok

====
